---- MODULE Spec2Model ----
(***************************************************************************)
(* Model of the subscription engine of stever-node-tools                   *)
(* (src/src/subscription.rs): the pending-message registry filled by       *)
(* Subscription::send_message and the chain walker walk_blocks that drives *)
(* make_blocks_step / process_block / remove_expired_messages.             *)
(***************************************************************************)
EXTENDS Integers, Sequences, FiniteSets, TLC

(* ------------------------------------------------------------------ *)
(* Bounds of the model                                                  *)
(* ------------------------------------------------------------------ *)
\* number of send_message calls issued during one run
MaxCalls == 2
\* sequence number of the last masterchain block the node produces
MaxMcSeq == 3
\* seconds between the generation times of two consecutive masterchain blocks
McBlockIntervalSec == 5
\* largest lag, in seconds, of the wall clock behind the node's last block
MaxClockLagSec == 1
\* retries of one block download after which only final answers arrive
MaxAttempts == 10
\* answered RLDP queries of one run
MaxObservations == 3
\* largest roundtrip, in milliseconds, an RLDP query reports
MaxRoundtrip == 4
\* largest sequence number of a shard block
MaxShardSeq == 2

(* ------------------------------------------------------------------ *)
(* Program constants                                                    *)
(* ------------------------------------------------------------------ *)
MASTERCHAIN_ID == -1
BASE_WORKCHAIN_ID == 0
LAST_MC_BLOCK_TTL_SEC == 10
\* stand-in for usize::MAX, the value an AtomicUsize wraps to below zero
USIZE_MAX == 2147483647
RETRY_COUNT == 10
ATTEMPT_INTERVAL == 50
\* the multiplier 1.2 is the fraction 6/5
BLOCK_TIMEOUTS == [initial |-> 200, max |-> 1000, multiplier |-> << 6, 5 >>]

(* ------------------------------------------------------------------ *)
(* Values                                                               *)
(* ------------------------------------------------------------------ *)
Calls == 1..MaxCalls
Accounts == {1, 2}
Buckets == {"mc", "sc"}

\* Option<T>: None is the empty set, Some(v) the singleton {v}
None == {}
Some(v) == {v}
IsSome(o) == o # {}
Unwrap(o) == CHOOSE v \in o : TRUE

\* the messages callers submit: external-in messages to the masterchain, to
\* the base workchain (two of them to the same account), to another
\* workchain, and an internal message
Messages ==
    { [ext_in |-> TRUE,  workchain |-> MASTERCHAIN_ID,    account |-> 1, body |-> 1],
      [ext_in |-> TRUE,  workchain |-> BASE_WORKCHAIN_ID, account |-> 1, body |-> 1],
      [ext_in |-> TRUE,  workchain |-> BASE_WORKCHAIN_ID, account |-> 1, body |-> 2],
      [ext_in |-> TRUE,  workchain |-> BASE_WORKCHAIN_ID, account |-> 2, body |-> 1],
      [ext_in |-> TRUE,  workchain |-> 1,                 account |-> 1, body |-> 1],
      [ext_in |-> FALSE, workchain |-> BASE_WORKCHAIN_ID, account |-> 1, body |-> 1] }

\* message_cell.repr_hash(): a collision-free digest of the whole message
MessageHash(m) ==
    m.body + 4 * m.account + 16 * (m.workchain + 1) + 64 * (IF m.ext_in THEN 1 ELSE 0)

Hashes == { MessageHash(m) : m \in Messages }

\* message.ext_in_header(): the destination, only for external-in messages
ExtInHeaderDst(m) ==
    IF m.ext_in THEN Some([workchain |-> m.workchain, account |-> m.account]) ELSE None

\* faulty variant: every workchain but the masterchain selects the shard-chain bucket
BucketOfWorkchainDefault(workchain) ==
    IF workchain = MASTERCHAIN_ID THEN Some("mc") ELSE Some("sc")

\* the bucket a workchain id selects, None when it is unsupported
BucketOfWorkchain(workchain) ==
    IF workchain = MASTERCHAIN_ID THEN Some("mc")
    ELSE IF workchain = BASE_WORKCHAIN_ID THEN Some("sc")
    ELSE None

\* generation time of the masterchain block with a sequence number
GenUtime(seq_no) == seq_no * McBlockIntervalSec

\* the expire_at values callers pass
ExpireChoices == { GenUtime(2), GenUtime(3) }

\* a transaction cell of a block: one that does not decode, or a transaction
\* with the hash of its inbound message, if it has one
Transactions ==
    { [valid |-> FALSE, in_msg |-> None] }
        \cup [valid : {TRUE}, in_msg : {None} \cup { Some(h) : h \in Hashes }]

\* cell.repr_hash() of a transaction cell
TransactionHash(tx) == 1000 + (IF IsSome(tx.in_msg) THEN Unwrap(tx.in_msg) ELSE 0)

\* faulty variant: the hash of the inbound message is reported as the transaction's
TransactionWithMessageHash(tx) ==
    [hash |-> IF IsSome(tx.in_msg) THEN Unwrap(tx.in_msg) ELSE 0, data |-> tx]

\* lines 245-246, 260: TransactionWithHash { hash, data }
TransactionWithHash(tx) == [hash |-> TransactionHash(tx), data |-> tx]

(* ------------------------------------------------------------------ *)
(* Maps                                                                 *)
(* ------------------------------------------------------------------ *)
EmptyMap == << >>
MapInsert(f, k, v) == [x \in (DOMAIN f) \cup {k} |-> IF x = k THEN v ELSE f[x]]
MapRemove(f, k) == [x \in (DOMAIN f) \ {k} |-> f[x]]
MapRestrict(f, keys) == [x \in keys |-> f[x]]

(* ------------------------------------------------------------------ *)
(* State                                                                *)
(* ------------------------------------------------------------------ *)
VARIABLES
    pending_messages,         \* bucket -> account -> message hash -> PendingMessage
    pending_message_count,    \* the AtomicUsize counter
    signal,                   \* the walker's Notified future: "none", "armed", "fired"
    last_mc_block,            \* Option<StoredMcBlock>
    calls,                    \* each send_message call: position, arguments, result
    sent,                     \* per call, the values sent through its oneshot channel
    walker,                   \* the walker task: position and locals of the step
    ext_refs,                 \* strong references held outside the walker
    node_last_mc,             \* seq_no of the node's last masterchain block
    resolve,                  \* the resolve_ip call: position, attempt, result
    fetch,                    \* the get_next_block / get_block call in progress
    roundtrip,                \* NodeInner::roundtrip, the RLDP estimate
    observed,                 \* the roundtrips of the answered RLDP queries
    dfs                       \* one shard task of make_blocks_step

\* the state of the subscription and of its walker
sub_vars == << pending_messages, pending_message_count, signal, last_mc_block,
               calls, sent, walker, ext_refs, node_last_mc >>

\* the state of the UDP session and of the shard traversal
net_vars == << resolve, fetch, roundtrip, observed, dfs >>

vars == << pending_messages, pending_message_count, signal, last_mc_block,
           calls, sent, walker, ext_refs, node_last_mc,
           resolve, fetch, roundtrip, observed, dfs >>

(* ------------------------------------------------------------------ *)
(* Single-shot channels and PendingMessage                              *)
(* ------------------------------------------------------------------ *)
\* oneshot::Sender::send on the channel of call c
ChannelSend(chan, c, value) == [chan EXCEPT ![c] = Append(@, value)]

PendingMessage(expire_at, c) == [expire_at |-> expire_at, tx |-> Some(c)]

\* faulty variant: the sender is read where it should be taken
TakeTxKept(pm) == pm

\* pending_message.tx.take(): what is left in the entry
TakeTx(pm) == [pm EXCEPT !.tx = None]

\* faulty variant: a destroyed entry sends nothing
DropPendingMessagesSilent(chan, inner, keys) == chan

\* impl Drop for PendingMessage, for the entries of inner under keys: every
\* entry that still holds its sender sends None through it
DropPendingMessages(chan, inner, keys) ==
    [c \in DOMAIN chan |->
        chan[c] \o [i \in 1..Cardinality({k \in keys : inner[k].tx = Some(c)}) |-> None]]

\* AtomicUsize::fetch_add / fetch_sub: wrapping arithmetic
FetchAdd(count, n) == IF count > USIZE_MAX - n THEN n - (USIZE_MAX - count) - 1 ELSE count + n
FetchSub(count, n) == IF count >= n THEN count - n ELSE USIZE_MAX - (n - count) + 1

\* faulty variant: the waiters are not notified
NotifyWaitersMissed(sig) == sig

\* Notify::notify_waiters: completes the Notified futures that exist
NotifyWaiters(sig) == IF sig = "armed" THEN "fired" ELSE sig

(* ------------------------------------------------------------------ *)
(* The outer map's shard locks                                          *)
(* ------------------------------------------------------------------ *)
CallBucket(c) == Unwrap(BucketOfWorkchain(Unwrap(calls[c].message).workchain))
CallAccount(c) == Unwrap(calls[c].message).account
CallHash(c) == MessageHash(Unwrap(calls[c].message))

\* faulty variant: the shard is released right after the insertion, before
\* the increment
HoldsShardUntilInserted(c) == FALSE

\* a send_message call holds the shard of its account from the insertion
\* until it has notified the waiters (lines 70-91)
HoldsShard(c) == calls[c].pc \in {"inserted", "counted"}

\* process_block holds the shard of the account block it iterates (lines
\* 236-266)
WalkerHoldsShard(bucket, account) ==
    /\ walker.held = account
    /\ walker.pc = (IF bucket = "mc" THEN "proc_mc" ELSE "proc_sc")

ShardFree(bucket, account) ==
    /\ ~WalkerHoldsShard(bucket, account)
    /\ \A c \in Calls :
          HoldsShard(c) => ~(CallBucket(c) = bucket /\ CallAccount(c) = account)

(* ------------------------------------------------------------------ *)
(* Init                                                                 *)
(* ------------------------------------------------------------------ *)
IdleCall == [pc |-> "idle", message |-> None, expire_at |-> 0,
             result |-> "none", value |-> None]

IdleWalker == [pc |-> "upgrade", last_seq |-> 0, next_seq |-> 0, cursor |-> 0, held |-> 0]

\* no resolve_ip call, no block download and no shard task is running
IdleResolve == [pc |-> "idle", attempt |-> 0, result |-> "none"]
IdleFetch == [pc |-> "idle", op |-> "none", attempt |-> 0, timeouts |-> BLOCK_TIMEOUTS,
              hint |-> None, slept |-> 0, result |-> "none"]
IdleDfs == [pc |-> "idle", edge |-> EmptyMap, stack |-> << >>, blocks |-> << >>,
            asked |-> {}]

\* Subscription::new: empty registry, zero counter, no cached tip, the walker
\* spawned with a weak reference, one strong reference returned
Init ==
    /\ pending_messages = [b \in Buckets |-> EmptyMap]
    /\ pending_message_count = 0
    /\ signal = "none"
    /\ last_mc_block = None
    /\ calls = [c \in Calls |-> IdleCall]
    /\ sent = [c \in Calls |-> << >>]
    /\ walker = IdleWalker
    /\ ext_refs = 1
    /\ node_last_mc = 1
    /\ resolve = IdleResolve
    /\ fetch = IdleFetch
    /\ roundtrip = 0
    /\ observed = << >>
    /\ dfs = IdleDfs

(* ------------------------------------------------------------------ *)
(* Subscription::send_message                                           *)
(* ------------------------------------------------------------------ *)
\* the call returns: its locals are dropped, its result is what is left
Return(c, result, value) ==
    [calls EXCEPT ![c] = [pc |-> "done", message |-> None, expire_at |-> 0,
                          result |-> result, value |-> value]]

\* calls are numbered in the order they are issued
MayStart(c) ==
    /\ ext_refs > 0
    /\ calls[c].pc = "idle"
    /\ \A d \in Calls : d < c => calls[d].pc # "idle"

\* line 45: a caller issues send_message(message, expire_at)
SendCall(c, message, expire_at) ==
    /\ MayStart(c)
    /\ calls' = [calls EXCEPT ![c].pc = "called", ![c].message = Some(message),
                              ![c].expire_at = expire_at]
    /\ UNCHANGED << pending_messages, pending_message_count, signal, last_mc_block,
                    sent, walker, ext_refs, node_last_mc >>
    /\ UNCHANGED net_vars

\* lines 51-54: not an external-in message
SendNotExternal(c) ==
    /\ calls[c].pc = "called"
    /\ ExtInHeaderDst(Unwrap(calls[c].message)) = None
    /\ calls' = Return(c, "expected external message", None)
    /\ UNCHANGED << pending_messages, pending_message_count, signal, last_mc_block,
                    sent, walker, ext_refs, node_last_mc >>
    /\ UNCHANGED net_vars

\* lines 63-67: destination in an unsupported workchain
SendUnsupportedWorkchain(c) ==
    /\ calls[c].pc = "called"
    /\ IsSome(ExtInHeaderDst(Unwrap(calls[c].message)))
    /\ BucketOfWorkchain(Unwrap(ExtInHeaderDst(Unwrap(calls[c].message))).workchain) = None
    /\ calls' = Return(c, "unsupported workchain", None)
    /\ UNCHANGED << pending_messages, pending_message_count, signal, last_mc_block,
                    sent, walker, ext_refs, node_last_mc >>
    /\ UNCHANGED net_vars

\* the destination of the call's message is in a supported workchain
Accepted(c) ==
    /\ calls[c].pc = "called"
    /\ IsSome(ExtInHeaderDst(Unwrap(calls[c].message)))
    /\ IsSome(BucketOfWorkchain(Unwrap(ExtInHeaderDst(Unwrap(calls[c].message))).workchain))

\* faulty variant: the account's inner map is looked up, not the message hash in it
KeyOccupiedByAccount(outer, account, message_hash) == account \in DOMAIN outer

\* lines 71-73: pending_messages.entry(dst).or_default().entry(message_hash)
\* is Occupied
KeyOccupied(outer, account, message_hash) ==
    /\ account \in DOMAIN outer
    /\ message_hash \in DOMAIN outer[account]

\* lines 71-81: take the account's shard, create the inner map when absent,
\* insert the entry under the message hash when the key is vacant
SendInsert(c) ==
    /\ Accepted(c)
    /\ ShardFree(CallBucket(c), CallAccount(c))
    /\ LET outer == pending_messages[CallBucket(c)]
           inner == IF CallAccount(c) \in DOMAIN outer
                    THEN outer[CallAccount(c)] ELSE EmptyMap
       IN  /\ ~KeyOccupied(outer, CallAccount(c), CallHash(c))
           /\ pending_messages' =
                 [pending_messages EXCEPT ![CallBucket(c)] =
                     MapInsert(outer, CallAccount(c),
                         MapInsert(inner, CallHash(c),
                                   PendingMessage(calls[c].expire_at, c)))]
    /\ calls' = [calls EXCEPT ![c].pc = "inserted"]
    /\ UNCHANGED << pending_message_count, signal, last_mc_block, sent, walker,
                    ext_refs, node_last_mc >>
    /\ UNCHANGED net_vars

\* line 82: the key is occupied
SendDuplicate(c) ==
    /\ Accepted(c)
    /\ ShardFree(CallBucket(c), CallAccount(c))
    /\ KeyOccupied(pending_messages[CallBucket(c)], CallAccount(c), CallHash(c))
    /\ calls' = Return(c, "message already sent", None)
    /\ UNCHANGED << pending_messages, pending_message_count, signal, last_mc_block,
                    sent, walker, ext_refs, node_last_mc >>
    /\ UNCHANGED net_vars

\* line 86: the counter is incremented while the shard is held
SendCount(c) ==
    /\ calls[c].pc = "inserted"
    /\ pending_message_count' = FetchAdd(pending_message_count, 1)
    /\ calls' = [calls EXCEPT ![c].pc = "counted"]
    /\ UNCHANGED << pending_messages, signal, last_mc_block, sent, walker,
                    ext_refs, node_last_mc >>
    /\ UNCHANGED net_vars

\* lines 87-91: notify the waiters, then release the shard
SendNotify(c) ==
    /\ calls[c].pc = "counted"
    /\ signal' = NotifyWaiters(signal)
    /\ calls' = [calls EXCEPT ![c].pc = "tcp"]
    /\ UNCHANGED << pending_messages, pending_message_count, last_mc_block, sent,
                    walker, ext_refs, node_last_mc >>
    /\ UNCHANGED net_vars

\* line 94, Ok: the TCP channel accepted the message
SendTcpOk(c) ==
    /\ calls[c].pc = "tcp"
    /\ calls' = [calls EXCEPT ![c].pc = "wait"]
    /\ UNCHANGED << pending_messages, pending_message_count, signal, last_mc_block,
                    sent, walker, ext_refs, node_last_mc >>
    /\ UNCHANGED net_vars

\* lines 96-106: what the rollback leaves of the outer map: the entry under
\* the call's message hash removed, the inner map removed when it is empty
RollbackOuter(outer, account, message_hash) ==
    IF account \in DOMAIN outer
    THEN LET inner == MapRemove(outer[account], message_hash)
         IN  IF DOMAIN inner = {} THEN MapRemove(outer, account)
             ELSE [outer EXCEPT ![account] = inner]
    ELSE outer

\* lines 94-108, Err: the submission failed; roll the insertion back and
\* return the error
SendTcpErr(c) ==
    /\ calls[c].pc = "tcp"
    /\ ShardFree(CallBucket(c), CallAccount(c))
    /\ LET b == CallBucket(c)
           outer == pending_messages[b]
           removed == IF KeyOccupied(outer, CallAccount(c), CallHash(c))
                      THEN {CallHash(c)} ELSE {}
       IN  /\ pending_messages' =
                [pending_messages EXCEPT ![b] =
                    RollbackOuter(outer, CallAccount(c), CallHash(c))]
           /\ sent' = IF removed = {} THEN sent
                      ELSE DropPendingMessages(sent, outer[CallAccount(c)], removed)
    /\ calls' = Return(c, "tcp error", None)
    /\ UNCHANGED << pending_message_count, signal, last_mc_block, walker,
                    ext_refs, node_last_mc >>
    /\ UNCHANGED net_vars

\* line 111: the reply channel yields the value sent through it
SendReceive(c) ==
    /\ calls[c].pc = "wait"
    /\ Len(sent[c]) > 0
    /\ calls' = Return(c, "ok", Head(sent[c]))
    /\ UNCHANGED << pending_messages, pending_message_count, signal, last_mc_block,
                    sent, walker, ext_refs, node_last_mc >>
    /\ UNCHANGED net_vars

(* ------------------------------------------------------------------ *)
(* Subscription::process_block and remove_expired_messages              *)
(* ------------------------------------------------------------------ *)
\* lines 244-263: one transaction of an account block against the account's
\* inner map. st = [inner, count, chan, ok]; ok = FALSE when the cell does
\* not decode.
ProcessTransaction(tx, st) ==
    IF ~tx.valid THEN [st EXCEPT !.ok = FALSE]
    ELSE IF tx.in_msg = None \/ Unwrap(tx.in_msg) \notin DOMAIN st.inner THEN st
    ELSE LET in_msg_hash == Unwrap(tx.in_msg)
             pending_message == st.inner[in_msg_hash]
             taken == TakeTx(pending_message)
             delivered ==
                 IF IsSome(pending_message.tx)
                 THEN ChannelSend(st.chan, Unwrap(pending_message.tx),
                                  Some(TransactionWithHash(tx)))
                 ELSE st.chan
         IN  [st EXCEPT
                 !.inner = MapRemove(st.inner, in_msg_hash),
                 !.count = FetchSub(st.count, 1),
                 !.chan = DropPendingMessages(delivered,
                             [k \in {in_msg_hash} |-> taken], {in_msg_hash})]

\* faulty variant: an entry expires at its expire_at already
IsInvalidAtExpiry(message, utime) == message.expire_at <= utime

\* line 277: message.expire_at < utime
IsInvalid(message, utime) == message.expire_at < utime

\* lines 276-283: the inner retain of one account, and whether the account
\* stays in the outer map
RetainAccount(outer, account, utime) ==
    LET inner == outer[account]
        kept == {k \in DOMAIN inner : ~IsInvalid(inner[k], utime)}
    IN  IF kept = {} THEN MapRemove(outer, account)
        ELSE [outer EXCEPT ![account] = MapRestrict(inner, kept)]

(* ------------------------------------------------------------------ *)
(* walk_blocks and make_blocks_step                                     *)
(* ------------------------------------------------------------------ *)
\* the accounts in the order the iterations visit them
FirstAccount == CHOOSE a \in Accounts : \A b \in Accounts : a <= b
LastAccount == CHOOSE a \in Accounts : \A b \in Accounts : a >= b

\* the walker holds a strong reference from a successful upgrade to the end
\* of that loop iteration (lines 290-313)
WalkerHoldsStrong == walker.pc \notin {"upgrade", "exited"}

\* line 290: Weak::upgrade
WalkerUpgrade ==
    /\ walker.pc = "upgrade"
    /\ walker' = [walker EXCEPT !.pc = IF ext_refs > 0 THEN "arm" ELSE "exited"]
    /\ UNCHANGED << pending_messages, pending_message_count, signal, last_mc_block,
                    calls, sent, ext_refs, node_last_mc >>
    /\ UNCHANGED net_vars

\* lines 295-296: create the Notified future
WalkerArm ==
    /\ walker.pc = "arm"
    /\ signal' = "armed"
    /\ walker' = [walker EXCEPT !.pc = "check"]
    /\ UNCHANGED << pending_messages, pending_message_count, last_mc_block,
                    calls, sent, ext_refs, node_last_mc >>
    /\ UNCHANGED net_vars

\* line 298: read the counter
WalkerCheck ==
    /\ walker.pc = "check"
    /\ walker' = [walker EXCEPT !.pc = IF pending_message_count > 0 THEN "step" ELSE "await"]
    /\ UNCHANGED << pending_messages, pending_message_count, signal, last_mc_block,
                    calls, sent, ext_refs, node_last_mc >>
    /\ UNCHANGED net_vars

\* lines 196-202: the cached tip is reused while gen_utime + TTL > now
IsFresh(stored, now) == stored.gen_utime + LAST_MC_BLOCK_TTL_SEC > now

StoredMcBlock(seq_no) == [seq_no |-> seq_no, gen_utime |-> GenUtime(seq_no)]

\* lines 195-222: get_last_mc_block answers the cached tip, or the node's
\* last masterchain block, which it installs
StepGetLast ==
    /\ walker.pc = "step"
    /\ \E lag \in 0..MaxClockLagSec :
          LET now == GenUtime(node_last_mc) + lag IN
          IF IsSome(last_mc_block) /\ IsFresh(Unwrap(last_mc_block), now)
          THEN /\ walker' = [walker EXCEPT !.pc = "get_next",
                                           !.last_seq = Unwrap(last_mc_block).seq_no]
               /\ UNCHANGED last_mc_block
          ELSE /\ last_mc_block' = Some(StoredMcBlock(node_last_mc))
               /\ walker' = [walker EXCEPT !.pc = "get_next", !.last_seq = node_last_mc]
    /\ UNCHANGED << pending_messages, pending_message_count, signal, calls, sent,
                    ext_refs, node_last_mc >>
    /\ UNCHANGED net_vars

\* faulty variant: the block asked for is the tip itself
NextSeqNoSame(last_seq) == last_seq

\* lines 119-123: get_next_block(last_mc_block.data.id()) answers the
\* successor of the tip
NextSeqNo(last_seq) == last_seq + 1

\* lines 119-162: the next masterchain block and its shard blocks are fetched
StepGetNext ==
    /\ walker.pc = "get_next"
    /\ node_last_mc > walker.last_seq
    /\ walker' = [walker EXCEPT !.pc = "proc_sc", !.next_seq = NextSeqNo(walker.last_seq),
                                !.last_seq = 0, !.cursor = FirstAccount]
    /\ UNCHANGED << pending_messages, pending_message_count, signal, last_mc_block,
                    calls, sent, ext_refs, node_last_mc >>
    /\ UNCHANGED net_vars

\* faulty variant: an error ends the walker's inner loop
StepErrBreaks == [walker EXCEPT !.pc = "await", !.last_seq = 0, !.next_seq = 0,
                                !.cursor = 0, !.held = 0]

\* make_blocks_step returned Err: its locals are gone and the walker, having
\* logged the error, calls it again (lines 303-305)
StepErr == [walker EXCEPT !.pc = "step", !.last_seq = 0, !.next_seq = 0,
                          !.cursor = 0, !.held = 0]

\* lines 116, 123-128, 143-144, 166: a fetch or a decode fails
StepFetchFails ==
    /\ walker.pc \in {"step", "get_next"}
    /\ walker' = StepErr
    /\ UNCHANGED << pending_messages, pending_message_count, signal, last_mc_block,
                    calls, sent, ext_refs, node_last_mc >>
    /\ UNCHANGED net_vars

BucketOfPhase(pc) == IF pc \in {"proc_mc", "expire_mc"} THEN "mc" ELSE "sc"

\* lines 235-239: the next account block of the block being processed; it is
\* skipped when the account has no inner map, else its shard is taken
ProcessEnterAccount(account) ==
    /\ walker.pc \in {"proc_sc", "proc_mc"}
    /\ walker.held = 0
    /\ account >= walker.cursor
    /\ ShardFree(BucketOfPhase(walker.pc), account)
    /\ walker' = IF account \in DOMAIN pending_messages[BucketOfPhase(walker.pc)]
                 THEN [walker EXCEPT !.held = account]
                 ELSE [walker EXCEPT !.cursor = account + 1]
    /\ UNCHANGED << pending_messages, pending_message_count, signal, last_mc_block,
                    calls, sent, ext_refs, node_last_mc >>
    /\ UNCHANGED net_vars

\* lines 243-264: the next transaction of the account block
ProcessNextTransaction(tx) ==
    /\ walker.pc \in {"proc_sc", "proc_mc"}
    /\ walker.held # 0
    /\ LET b == BucketOfPhase(walker.pc)
           st == ProcessTransaction(tx,
                    [inner |-> pending_messages[b][walker.held],
                     count |-> pending_message_count,
                     chan |-> sent, ok |-> TRUE])
       IN  /\ pending_messages' = [pending_messages EXCEPT ![b][walker.held] = st.inner]
           /\ pending_message_count' = st.count
           /\ sent' = st.chan
           /\ walker' = IF st.ok THEN walker ELSE StepErr
    /\ UNCHANGED << signal, last_mc_block, calls, ext_refs, node_last_mc >>
    /\ UNCHANGED net_vars

\* line 266: the account block is done and its shard released
ProcessLeaveAccount ==
    /\ walker.pc \in {"proc_sc", "proc_mc"}
    /\ walker.held # 0
    /\ walker' = [walker EXCEPT !.held = 0, !.cursor = walker.held + 1]
    /\ UNCHANGED << pending_messages, pending_message_count, signal, last_mc_block,
                    calls, sent, ext_refs, node_last_mc >>
    /\ UNCHANGED net_vars

\* lines 232-233: the block's extra does not decode
ProcessBlockFails ==
    /\ walker.pc \in {"proc_sc", "proc_mc"}
    /\ walker.held = 0
    /\ walker.cursor = FirstAccount
    /\ walker' = StepErr
    /\ UNCHANGED << pending_messages, pending_message_count, signal, last_mc_block,
                    calls, sent, ext_refs, node_last_mc >>
    /\ UNCHANGED net_vars

\* lines 165-170: process_block returned Ok for a shard block and the next
\* shard block of the step is processed
ProcessNextShardBlock ==
    /\ walker.pc = "proc_sc"
    /\ walker.held = 0
    /\ walker.cursor > FirstAccount
    /\ walker' = [walker EXCEPT !.cursor = FirstAccount]
    /\ UNCHANGED << pending_messages, pending_message_count, signal, last_mc_block,
                    calls, sent, ext_refs, node_last_mc >>
    /\ UNCHANGED net_vars

\* faulty variant: the masterchain block is not processed
ProcessBlockDoneSkipsMc ==
    /\ walker.pc \in {"proc_sc", "proc_mc"}
    /\ walker.held = 0
    /\ walker' = [walker EXCEPT !.pc = "expire_mc", !.cursor = FirstAccount]
    /\ UNCHANGED << pending_messages, pending_message_count, signal, last_mc_block,
                    calls, sent, ext_refs, node_last_mc >>
    /\ UNCHANGED net_vars

\* lines 168-174: process_block returned Ok; the shard blocks are followed by
\* the masterchain block, and that by the expiry of the masterchain bucket
ProcessBlockDone ==
    /\ walker.pc \in {"proc_sc", "proc_mc"}
    /\ walker.held = 0
    /\ walker' = [walker EXCEPT !.pc = IF walker.pc = "proc_sc" THEN "proc_mc" ELSE "expire_mc",
                                !.cursor = FirstAccount]
    /\ UNCHANGED << pending_messages, pending_message_count, signal, last_mc_block,
                    calls, sent, ext_refs, node_last_mc >>
    /\ UNCHANGED net_vars

\* lines 272-285: the retain visits the shard of the next account
ExpireAccount ==
    /\ walker.pc \in {"expire_mc", "expire_sc"}
    /\ walker.cursor <= LastAccount
    /\ LET b == BucketOfPhase(walker.pc)
           outer == pending_messages[b]
           account == walker.cursor
           utime == GenUtime(walker.next_seq)
       IN  /\ ShardFree(b, account)
           /\ IF account \notin DOMAIN outer
              THEN UNCHANGED << pending_messages, pending_message_count, sent >>
              ELSE LET removed == {k \in DOMAIN outer[account] :
                                      IsInvalid(outer[account][k], utime)}
                   IN  /\ pending_messages' =
                             [pending_messages EXCEPT ![b] = RetainAccount(outer, account, utime)]
                       /\ pending_message_count' =
                             FetchSub(pending_message_count, Cardinality(removed))
                       /\ sent' = DropPendingMessages(sent, outer[account], removed)
    /\ walker' = [walker EXCEPT !.cursor = walker.cursor + 1]
    /\ UNCHANGED << signal, last_mc_block, calls, ext_refs, node_last_mc >>
    /\ UNCHANGED net_vars

\* lines 174-175: the masterchain bucket's retain is followed by the
\* shard-chain bucket's
ExpireMcDone ==
    /\ walker.pc = "expire_mc"
    /\ walker.cursor > LastAccount
    /\ walker' = [walker EXCEPT !.pc = "expire_sc", !.cursor = FirstAccount]
    /\ UNCHANGED << pending_messages, pending_message_count, signal, last_mc_block,
                    calls, sent, ext_refs, node_last_mc >>
    /\ UNCHANGED net_vars

\* lines 177-193 and 301-302: install the next block as the cached tip and
\* answer whether messages are pending; Ok(true) runs another step,
\* Ok(false) leaves the loop
StepInstall ==
    /\ walker.pc = "expire_sc"
    /\ walker.cursor > LastAccount
    /\ last_mc_block' = Some(StoredMcBlock(walker.next_seq))
    /\ walker' = [walker EXCEPT !.pc = IF pending_message_count > 0 THEN "step" ELSE "await",
                                !.next_seq = 0, !.cursor = 0]
    /\ UNCHANGED << pending_messages, pending_message_count, signal, calls, sent,
                    ext_refs, node_last_mc >>
    /\ UNCHANGED net_vars

\* the last strong reference is released: the subscription is destroyed and
\* with it every pending entry (lines 343-349)
DestroyedRegistry == [b \in Buckets |-> EmptyMap]

DestroyedChannels ==
    [c \in Calls |->
        sent[c] \o [i \in 1..Cardinality(
            { k \in Buckets \X Accounts \X Hashes :
                /\ KeyOccupied(pending_messages[k[1]], k[2], k[3])
                /\ pending_messages[k[1]][k[2]][k[3]].tx = Some(c) }) |-> None]]

\* lines 312-313: the signal completes; the iteration ends and drops the
\* walker's strong reference
WalkerAwait ==
    /\ walker.pc = "await"
    /\ signal = "fired"
    /\ signal' = "none"
    /\ walker' = [walker EXCEPT !.pc = "upgrade"]
    /\ IF ext_refs = 0
       THEN pending_messages' = DestroyedRegistry /\ sent' = DestroyedChannels
       ELSE UNCHANGED << pending_messages, sent >>
    /\ UNCHANGED << pending_message_count, last_mc_block, calls, ext_refs, node_last_mc >>
    /\ UNCHANGED net_vars

(* ------------------------------------------------------------------ *)
(* Environment                                                          *)
(* ------------------------------------------------------------------ *)
\* the owners release their strong references; a send_message call borrows
\* the subscription for as long as it runs
DropSubscription ==
    /\ ext_refs > 0
    /\ \A c \in Calls : calls[c].pc \in {"idle", "done"}
    /\ ext_refs' = 0
    /\ IF WalkerHoldsStrong
       THEN UNCHANGED << pending_messages, sent >>
       ELSE pending_messages' = DestroyedRegistry /\ sent' = DestroyedChannels
    /\ UNCHANGED << pending_message_count, signal, last_mc_block, calls, walker,
                    node_last_mc >>
    /\ UNCHANGED net_vars

\* the node produces the next masterchain block
NodeProducesBlock ==
    /\ node_last_mc < MaxMcSeq
    /\ node_last_mc' = node_last_mc + 1
    /\ UNCHANGED << pending_messages, pending_message_count, signal, last_mc_block,
                    calls, sent, walker, ext_refs >>
    /\ UNCHANGED net_vars

(* ------------------------------------------------------------------ *)
(* UninitNodeUdpRpc::resolve_ip                                         *)
(* ------------------------------------------------------------------ *)
\* line 206: resolve_ip is called
ResolveCall ==
    /\ resolve.pc = "idle"
    /\ resolve' = [pc |-> "loop", attempt |-> 0, result |-> "none"]
    /\ UNCHANGED << fetch, roundtrip, observed, dfs >>
    /\ UNCHANGED sub_vars

\* faulty variant: the last retry is not made
ResolveGivesUpEarly(attempt) == attempt >= RETRY_COUNT

\* line 211: Err(e) if attempt > RETRY_COUNT
ResolveGivesUp(attempt) == attempt > RETRY_COUNT

\* lines 208-215: one iteration of the loop: attempt += 1, then find_address
\* answers Ok or Err
ResolveFind(ok) ==
    /\ resolve.pc = "loop"
    /\ LET attempt == resolve.attempt + 1
       IN  resolve' =
              IF ok THEN [pc |-> "done", attempt |-> attempt, result |-> "ok"]
              ELSE IF ResolveGivesUp(attempt)
                   THEN [pc |-> "done", attempt |-> attempt, result |-> "error"]
                   ELSE [pc |-> "loop", attempt |-> attempt, result |-> "none"]
    /\ UNCHANGED << fetch, roundtrip, observed, dfs >>
    /\ UNCHANGED sub_vars

ResolveNext ==
    \/ ResolveCall
    \/ \E ok \in BOOLEAN : ResolveFind(ok)

(* ------------------------------------------------------------------ *)
(* DownloaderTimeouts and NodeInner::rldp_query                         *)
(* ------------------------------------------------------------------ *)
Min(a, b) == IF a <= b THEN a ELSE b

\* faulty variant: the cap is not applied
UpdateUncapped(timeouts) ==
    [timeouts EXCEPT !.initial =
        (timeouts.initial * timeouts.multiplier[1]) \div timeouts.multiplier[2]]

\* line 308: initial = min(max, (initial as f64 * multiplier) as u64)
Update(timeouts) ==
    [timeouts EXCEPT !.initial =
        Min(timeouts.max,
            (timeouts.initial * timeouts.multiplier[1]) \div timeouts.multiplier[2])]

\* lines 302-305: sleep for the current initial, then update
SleepAndUpdate(f) == [f EXCEPT !.slept = f.timeouts.initial, !.timeouts = Update(f.timeouts)]

\* the roundtrips an RLDP query reports
RoundtripChoices == {0, 1, MaxRoundtrip}

\* what rldp.query answers: a hard failure, no answer, or an answer; it
\* reports the roundtrip it observed with both of the last two
RldpOutcomes(payloads) ==
    { [kind |-> "error", payload |-> "none", roundtrip |-> 0] }
        \cup [kind : {"none"}, payload : {"none"}, roundtrip : RoundtripChoices]
        \cup [kind : {"some"}, payload : payloads, roundtrip : RoundtripChoices]

\* lines 258-265: the roundtrip budget passed to rldp.query
RoundtripHint(current_roundtrip, attempt) ==
    IF current_roundtrip > 0 THEN Some(current_roundtrip + attempt * ATTEMPT_INTERVAL)
    ELSE None

\* lines 272-279: the estimate after a query that reported a roundtrip;
\* only an answer updates it
UpdateRoundtrip(current_roundtrip, outcome) ==
    IF outcome.kind # "some" THEN current_roundtrip
    ELSE IF current_roundtrip > 0 THEN (current_roundtrip + outcome.roundtrip) \div 2
    ELSE outcome.roundtrip

\* an answered query adds its roundtrip to the observations
Observe(obs, outcome) ==
    IF outcome.kind = "some" THEN Append(obs, outcome.roundtrip) ELSE obs

\* the answered queries of a run are bounded
MayAnswer(outcome) == outcome.kind = "some" => Len(observed) < MaxObservations

(* ------------------------------------------------------------------ *)
(* NodeUdpRpc::get_next_block and get_block                             *)
(* ------------------------------------------------------------------ *)
\* the payloads of an answer to DownloadNextBlockFull: a DataFull::Found
\* whose block decodes or does not, a DataFull::Empty, bytes that are no
\* DataFull
NextBlockPayloads == {"found", "found_undecodable", "empty", "garbage"}

\* the payloads of an answer to RpcDownloadBlock: a block that decodes or
\* does not
BlockPayloads == {"block", "undecodable"}

\* lines 113, 151: BlockStuff::new on the bytes of a block
BlockStuffNew(payload) ==
    IF payload \in {"found", "block"} THEN "block" ELSE "invalid block"

\* the session exists once resolve_ip has answered; one download at a time
\* is followed
FetchCall(op) ==
    /\ resolve.pc = "done" /\ resolve.result = "ok"
    /\ fetch.pc = "idle"
    /\ fetch' = [IdleFetch EXCEPT !.op = op,
                    !.pc = IF op = "get_next_block" THEN "next_query" ELSE "prepare_query"]
    /\ UNCHANGED << resolve, roundtrip, observed, dfs >>
    /\ UNCHANGED sub_vars

\* a download returned
Finish(f, result) == [f EXCEPT !.pc = "done", !.result = result]

\* faulty variant: a payload that does not parse is taken for an empty
\* response
NextBlockMatchRetriesInvalid(outcome) ==
    IF outcome.kind = "error" THEN "error"
    ELSE IF outcome.kind = "some" /\ outcome.payload \in {"found", "found_undecodable"}
         THEN "found"
    ELSE "retry"

\* lines 107-117: the arm get_next_block takes on the answer of rldp_query
NextBlockMatch(outcome) ==
    IF outcome.kind = "error" THEN "error"
    ELSE IF outcome.kind = "some" /\ outcome.payload \in {"found", "found_undecodable"}
         THEN "found"
    ELSE IF outcome.kind = "some" /\ outcome.payload = "garbage" THEN "invalid"
    ELSE "retry"

\* lines 103-122: one iteration of get_next_block's loop up to its match
NextBlockQuery(outcome) ==
    /\ fetch.pc = "next_query"
    /\ MayAnswer(outcome)
    /\ roundtrip' = UpdateRoundtrip(roundtrip, outcome)
    /\ observed' = Observe(observed, outcome)
    /\ LET f == [fetch EXCEPT !.hint = RoundtripHint(roundtrip, fetch.attempt)]
           arm == NextBlockMatch(outcome)
       IN  IF arm = "error" THEN fetch' = Finish(f, "rldp query failed")
           ELSE IF arm = "found" THEN fetch' = Finish(f, BlockStuffNew(outcome.payload))
           ELSE IF arm = "invalid" THEN fetch' = Finish(f, "invalid response")
           ELSE /\ fetch.attempt < MaxAttempts
                /\ fetch' = [f EXCEPT !.pc = "next_sleep"]
    /\ UNCHANGED << resolve, dfs >>
    /\ UNCHANGED sub_vars

\* lines 119-120: sleep_and_update, attempt += 1
NextBlockSleep ==
    /\ fetch.pc = "next_sleep"
    /\ fetch' = [SleepAndUpdate(fetch) EXCEPT !.pc = "next_query",
                                              !.attempt = fetch.attempt + 1]
    /\ UNCHANGED << resolve, roundtrip, observed, dfs >>
    /\ UNCHANGED sub_vars

\* what adnl_query answers to PrepareBlock: a hard failure, no answer
\* within the timeout, Prepared::Found, Prepared::NotFound
AdnlOutcomes == {"error", "none", "found", "not_found"}

\* lines 235-244: query_with_prefix(..).await?.context("timeout")
AdnlQuery(outcome) ==
    IF outcome = "error" THEN [ok |-> FALSE, value |-> "adnl query failed"]
    ELSE IF outcome = "none" THEN [ok |-> FALSE, value |-> "timeout"]
    ELSE [ok |-> TRUE, value |-> outcome]

\* faulty variant: stage B goes on with the policy stage A has advanced
PrepareQueryKeepsPolicy(outcome) ==
    /\ fetch.pc = "prepare_query"
    /\ LET r == AdnlQuery(outcome)
       IN  fetch' = IF ~r.ok THEN Finish(fetch, r.value)
                    ELSE IF r.value = "found"
                         THEN [fetch EXCEPT !.pc = "download_query", !.attempt = 0]
                    ELSE [fetch EXCEPT !.pc = "prepare_sleep"]
    /\ UNCHANGED << resolve, roundtrip, observed, dfs >>
    /\ UNCHANGED sub_vars

\* lines 128-143: one iteration of stage A of get_block; Found starts stage
\* B with a fresh policy and attempt 0
PrepareQuery(outcome) ==
    /\ fetch.pc = "prepare_query"
    /\ LET r == AdnlQuery(outcome)
       IN  fetch' = IF ~r.ok THEN Finish(fetch, r.value)
                    ELSE IF r.value = "found"
                         THEN [fetch EXCEPT !.pc = "download_query",
                                            !.timeouts = BLOCK_TIMEOUTS, !.attempt = 0]
                    ELSE [fetch EXCEPT !.pc = "prepare_sleep"]
    /\ UNCHANGED << resolve, roundtrip, observed, dfs >>
    /\ UNCHANGED sub_vars

\* line 137: sleep_and_update
PrepareSleep ==
    /\ fetch.pc = "prepare_sleep"
    /\ fetch' = [SleepAndUpdate(fetch) EXCEPT !.pc = "prepare_query"]
    /\ UNCHANGED << resolve, roundtrip, observed, dfs >>
    /\ UNCHANGED sub_vars

\* lines 144-157: one iteration of stage B of get_block up to its match
DownloadQuery(outcome) ==
    /\ fetch.pc = "download_query"
    /\ MayAnswer(outcome)
    /\ roundtrip' = UpdateRoundtrip(roundtrip, outcome)
    /\ observed' = Observe(observed, outcome)
    /\ LET f == [fetch EXCEPT !.hint = RoundtripHint(roundtrip, fetch.attempt)]
       IN  IF outcome.kind = "error" THEN fetch' = Finish(f, "rldp query failed")
           ELSE IF outcome.kind = "some"
                THEN fetch' = Finish(f, BlockStuffNew(outcome.payload))
           ELSE /\ fetch.attempt < MaxAttempts
                /\ fetch' = [f EXCEPT !.pc = "download_sleep"]
    /\ UNCHANGED << resolve, dfs >>
    /\ UNCHANGED sub_vars

\* faulty variant: the attempt number is not advanced
DownloadSleepKeepsAttempt ==
    /\ fetch.pc = "download_sleep"
    /\ fetch' = [SleepAndUpdate(fetch) EXCEPT !.pc = "download_query"]
    /\ UNCHANGED << resolve, roundtrip, observed, dfs >>
    /\ UNCHANGED sub_vars

\* lines 154-155: sleep_and_update, attempt += 1
DownloadSleep ==
    /\ fetch.pc = "download_sleep"
    /\ fetch' = [SleepAndUpdate(fetch) EXCEPT !.pc = "download_query",
                                              !.attempt = fetch.attempt + 1]
    /\ UNCHANGED << resolve, roundtrip, observed, dfs >>
    /\ UNCHANGED sub_vars

\* the caller has taken the result; the next download may start
FetchReturn ==
    /\ fetch.pc = "done"
    /\ fetch' = IdleFetch
    /\ UNCHANGED << resolve, roundtrip, observed, dfs >>
    /\ UNCHANGED sub_vars

FetchNext ==
    \/ \E op \in {"get_next_block", "get_block"} : FetchCall(op)
    \/ \E outcome \in RldpOutcomes(NextBlockPayloads) : NextBlockQuery(outcome)
    \/ NextBlockSleep
    \/ \E outcome \in AdnlOutcomes : PrepareQuery(outcome)
    \/ PrepareSleep
    \/ \E outcome \in RldpOutcomes(BlockPayloads) : DownloadQuery(outcome)
    \/ DownloadSleep
    \/ FetchReturn

(* ------------------------------------------------------------------ *)
(* Edge::is_before and the shard tasks of make_blocks_step              *)
(* ------------------------------------------------------------------ *)
\* shard identifiers: the prefix of the account addresses of the shard; the
\* whole workchain and its two halves
ShardIdents == { << >>, << 0 >>, << 1 >> }

IsPrefix(a, b) == Len(a) <= Len(b) /\ SubSeq(b, 1, Len(a)) = a

\* ShardIdent::intersect_with: the shards have accounts in common
IntersectWith(a, b) == IsPrefix(a, b) \/ IsPrefix(b, a)

BlockIds == [shard_id : ShardIdents, seq_no : 0..MaxShardSeq]

\* Edge: the top seq_no of some shards
Edges ==
    UNION { [shards -> 0..MaxShardSeq] : shards \in SUBSET ShardIdents }

\* lines 328-331: the entries of the edge whose shard intersects the
\* block's; find answers the one the map's iteration meets first, any of
\* them, or none
FindIntersecting(edge, id) ==
    IF \E shard \in DOMAIN edge : IntersectWith(id.shard_id, shard)
    THEN { Some(shard) : shard \in { x \in DOMAIN edge : IntersectWith(id.shard_id, x) } }
    ELSE { None }

\* faulty variant: a block at the edge counts as after it
IsBeforeOrAt(edge, id, found) ==
    IF id.shard_id \in DOMAIN edge THEN edge[id.shard_id] <= id.seq_no
    ELSE IF IsSome(found) THEN edge[Unwrap(found)] <= id.seq_no
    ELSE FALSE

\* lines 325-335: Edge::is_before, found being what find answers when the
\* edge has no entry for the block's shard
IsBefore(edge, id, found) ==
    IF id.shard_id \in DOMAIN edge THEN edge[id.shard_id] < id.seq_no
    ELSE IF IsSome(found) THEN edge[Unwrap(found)] < id.seq_no
    ELSE FALSE

\* read_brief_info of a fetched block: its previous blocks, one or two, in
\* shards that intersect its own and with smaller sequence numbers
BriefInfos(id) ==
    LET prevs == { p \in BlockIds :
                     p.seq_no < id.seq_no /\ IntersectWith(p.shard_id, id.shard_id) }
    IN  [prev1 : prevs, prev2 : {None} \cup { Some(p) : p \in prevs }]

\* the generation time of a shard block grows with its sequence number
ShardGenUtime(id) == id.seq_no

\* line 158: the sort key (gen_utime, seq_no)
SortsBefore(a, b) ==
    \/ ShardGenUtime(a) < ShardGenUtime(b)
    \/ ShardGenUtime(a) = ShardGenUtime(b) /\ a.seq_no < b.seq_no

\* the shard tops a masterchain block references are never behind those of
\* the masterchain block before it
TopNotBehind(edge, id) ==
    \A shard \in DOMAIN edge :
        IntersectWith(id.shard_id, shard) => edge[shard] <= id.seq_no

\* lines 134-141: a task is spawned for the top block id of a shard, with
\* the shards edge of the previous masterchain tip
DfsSpawn(edge, id) ==
    /\ dfs.pc = "idle"
    /\ id.seq_no > 0
    /\ TopNotBehind(edge, id)
    /\ dfs' = [pc |-> "run", edge |-> edge, stack |-> << id >>, blocks |-> << >>,
               asked |-> {}]
    /\ UNCHANGED << resolve, fetch, roundtrip, observed >>
    /\ UNCHANGED sub_vars

\* lines 142-155: pop a block id, fetch the block, record it, push those of
\* its previous blocks that the edge is before; asked records the answers
\* of is_before
DfsVisit ==
    /\ dfs.pc = "run"
    /\ dfs.stack # << >>
    /\ LET id == dfs.stack[Len(dfs.stack)]
           popped == SubSeq(dfs.stack, 1, Len(dfs.stack) - 1)
       IN  \E info \in BriefInfos(id) :
           \E found1 \in FindIntersecting(dfs.edge, info.prev1) :
           \E found2 \in (IF IsSome(info.prev2)
                          THEN FindIntersecting(dfs.edge, Unwrap(info.prev2))
                          ELSE { None }) :
               LET push1 == IsBefore(dfs.edge, info.prev1, found1)
                   push2 == /\ IsSome(info.prev2)
                            /\ IsBefore(dfs.edge, Unwrap(info.prev2), found2)
                   pushed1 == IF push1 THEN Append(popped, info.prev1) ELSE popped
                   pushed2 == IF push2 THEN Append(pushed1, Unwrap(info.prev2))
                              ELSE pushed1
               IN  dfs' = [dfs EXCEPT
                             !.stack = pushed2,
                             !.blocks = Append(dfs.blocks, id),
                             !.asked =
                                 { [id |-> info.prev1, answer |-> push1] }
                                     \cup (IF IsSome(info.prev2)
                                           THEN { [id |-> Unwrap(info.prev2),
                                                   answer |-> push2] }
                                           ELSE {})]
    /\ UNCHANGED << resolve, fetch, roundtrip, observed >>
    /\ UNCHANGED sub_vars

\* lines 143-144: get_block or read_brief_info fails and the task returns
\* the error
DfsFails ==
    /\ dfs.pc = "run"
    /\ dfs.stack # << >>
    /\ dfs' = [dfs EXCEPT !.pc = "failed", !.stack = << >>, !.blocks = << >>,
                          !.asked = {}]
    /\ UNCHANGED << resolve, fetch, roundtrip, observed >>
    /\ UNCHANGED sub_vars

\* lines 157-160: the stack is empty; the blocks are sorted and returned
DfsFinish ==
    /\ dfs.pc = "run"
    /\ dfs.stack = << >>
    /\ dfs' = [dfs EXCEPT !.pc = "done", !.blocks = SortSeq(dfs.blocks, SortsBefore),
                          !.asked = {}]
    /\ UNCHANGED << resolve, fetch, roundtrip, observed >>
    /\ UNCHANGED sub_vars

DfsNext ==
    \/ \E edge \in Edges, id \in BlockIds : DfsSpawn(edge, id)
    \/ DfsVisit
    \/ DfsFails
    \/ DfsFinish

(* ------------------------------------------------------------------ *)
(* Specification                                                        *)
(* ------------------------------------------------------------------ *)
\* the steps of the send_message calls, their arguments drawn from the given
\* messages and expiry times
SendSteps(messages, expiries) ==
    \E c \in Calls :
        \/ \E message \in messages, expire_at \in expiries :
              SendCall(c, message, expire_at)
        \/ SendNotExternal(c)
        \/ SendUnsupportedWorkchain(c)
        \/ SendInsert(c)
        \/ SendDuplicate(c)
        \/ SendCount(c)
        \/ SendNotify(c)
        \/ SendTcpOk(c)
        \/ SendTcpErr(c)
        \/ SendReceive(c)

WalkerNext ==
    \/ WalkerUpgrade
    \/ WalkerArm
    \/ WalkerCheck
    \/ StepGetLast
    \/ StepGetNext
    \/ StepFetchFails
    \/ \E account \in Accounts : ProcessEnterAccount(account)
    \/ \E tx \in Transactions : ProcessNextTransaction(tx)
    \/ ProcessLeaveAccount
    \/ ProcessBlockFails
    \/ ProcessNextShardBlock
    \/ ProcessBlockDone
    \/ ExpireAccount
    \/ ExpireMcDone
    \/ StepInstall
    \/ WalkerAwait

Next ==
    \/ SendSteps(Messages, ExpireChoices)
    \/ WalkerNext
    \/ DropSubscription
    \/ NodeProducesBlock

Spec == Init /\ [][Next]_vars

\* the executor runs every ready task: the walker and every send_message
\* call keep taking their next step while they have one
\* The arguments of the calls are drawn from one message of each kind and one
\* expiry time.
FairMessages == { m \in Messages : m.account = 1 /\ m.body = 1 }
FairExpireChoices == { GenUtime(2) }

FairNext ==
    \/ SendSteps(FairMessages, FairExpireChoices)
    \/ WalkerNext
    \/ DropSubscription
    \/ NodeProducesBlock

FairSpec ==
    /\ Init
    /\ [][FairNext]_vars
    /\ WF_vars(WalkerNext)
    /\ \A c \in Calls : WF_vars(SendCount(c) \/ SendNotify(c))

\* FairSpec with, besides, the node producing its blocks, every call taking
\* the value sent to it, and steps that eventually succeed: a fetch or a
\* decode that is tried again and again eventually succeeds, and a block has
\* finitely many transactions
LiveSpec ==
    /\ FairSpec
    /\ WF_vars(NodeProducesBlock)
    /\ \A c \in Calls : WF_vars(SendReceive(c))
    /\ SF_vars(StepGetNext)
    /\ WF_vars(ProcessLeaveAccount)
    /\ SF_vars(ProcessBlockDone /\ walker.pc = "proc_sc")
    /\ SF_vars(ProcessBlockDone /\ walker.pc = "proc_mc")

\* the UDP session alone: the peer is resolved, then blocks are downloaded
NetNext ==
    \/ ResolveNext
    \/ FetchNext

NetSpec == Init /\ [][NetNext]_vars

\* every call of the session that can take a step eventually takes one
NetFairSpec == NetSpec /\ WF_vars(ResolveNext) /\ WF_vars(FetchNext)

\* one shard task alone
DfsSpec == Init /\ [][DfsNext]_vars

(* ------------------------------------------------------------------ *)
(* Observations used by the properties                                  *)
(* ------------------------------------------------------------------ *)
\* the keys (bucket, account, message hash) present in the registry
Entries ==
    { k \in Buckets \X Accounts \X Hashes :
        /\ k[2] \in DOMAIN pending_messages[k[1]]
        /\ k[3] \in DOMAIN pending_messages[k[1]][k[2]] }

EntryAt(k) == pending_messages[k[1]][k[2]][k[3]]

\* the entries whose sender belongs to call c
EntriesOf(c) == { k \in Entries : EntryAt(k).tx = Some(c) }

\* call c has inserted an entry
HasInserted(c) ==
    \/ calls[c].pc \in {"inserted", "counted", "tcp", "wait"}
    \/ calls[c].pc = "done" /\ calls[c].result \in {"tcp error", "ok"}

\* no send_message is between its insertion and its increment, and the
\* walker is not inside an account block or a retain
Quiescent ==
    /\ \A c \in Calls : calls[c].pc # "inserted"
    /\ walker.held = 0
    /\ walker.pc \notin {"expire_mc", "expire_sc"}

(* ------------------------------------------------------------------ *)
(* C1                                                                   *)
(* ------------------------------------------------------------------ *)
\* C1: at every quiescent point pending_message_count equals the number of
\* entries of both buckets.
CounterEqualsEntries ==
    Quiescent => pending_message_count = Cardinality(Entries)

(* ------------------------------------------------------------------ *)
(* C2                                                                   *)
(* ------------------------------------------------------------------ *)
\* C2: at every quiescent point no account of either bucket has an empty
\* inner map. The points taken are those where, besides, process_block is not
\* running, so that the expiry that follows it in the same step is not what
\* an empty inner map is waiting for.
NoEmptyInnerMap ==
    (Quiescent /\ walker.pc \notin {"proc_sc", "proc_mc"}) =>
        \A b \in Buckets : \A a \in DOMAIN pending_messages[b] :
            DOMAIN pending_messages[b][a] # {}

(* ------------------------------------------------------------------ *)
(* C3                                                                   *)
(* ------------------------------------------------------------------ *)
\* C3: the sender of every entry is consumed exactly once: while the entry
\* of a call is in the registry nothing has been sent through the call's
\* channel, once it has left exactly one value has been sent, and a call
\* that inserted nothing is sent nothing.
SenderConsumedOnce ==
    \A c \in Calls :
        /\ Cardinality(EntriesOf(c)) <= 1
        /\ EntriesOf(c) # {} => HasInserted(c) /\ sent[c] = << >>
        /\ EntriesOf(c) = {} /\ HasInserted(c) => Len(sent[c]) = 1
        /\ ~HasInserted(c) => sent[c] = << >>
        /\ calls[c].pc = "done" /\ calls[c].result = "ok" => calls[c].value = sent[c][1]

\* one call was sent Some by the walker and another None by a removal
SenderConsumedOnceWitness ==
    \E c, d \in Calls :
        /\ Len(sent[c]) = 1 /\ IsSome(sent[c][1])
        /\ Len(sent[d]) = 1 /\ sent[d][1] = None
        /\ calls[c].pc = "done" /\ calls[d].pc = "done"
        /\ calls[c].result = "ok" /\ calls[d].result = "ok"

(* ------------------------------------------------------------------ *)
(* C4                                                                   *)
(* ------------------------------------------------------------------ *)
CallKey(c) == << CallBucket(c), CallAccount(c), CallHash(c) >>

\* the walker is iterating the account block of an account of a bucket
Iterating(bucket, account) ==
    /\ walker.pc \in {"proc_sc", "proc_mc"}
    /\ BucketOfPhase(walker.pc) = bucket
    /\ walker.held = account

\* C4: Some(TransactionWithHash) is sent to a call only by the walker
\* processing, under the call's account and in the call's bucket, a
\* transaction whose in_msg hash is the call's message hash while the call's
\* entry is present; it is the only value the call is ever sent, carries the
\* hash of that transaction cell, removes the entry and decrements the
\* counter by one; every such transaction does so, and the call returns the
\* value it was sent.
MatchDelivers ==
    [][ /\ \A c \in Calls :
            (Len(sent'[c]) > Len(sent[c]) /\ IsSome(sent'[c][Len(sent'[c])])) =>
                /\ Len(sent'[c]) = 1
                /\ calls[c].pc \in {"tcp", "wait"}
                /\ Iterating(CallBucket(c), CallAccount(c))
                /\ CallKey(c) \in Entries
                /\ EntryAt(CallKey(c)).tx = Some(c)
                /\ CallKey(c) \notin Entries'
                /\ Unwrap(sent'[c][1]).data.valid
                /\ Unwrap(sent'[c][1]).data.in_msg = Some(CallHash(c))
                /\ Unwrap(sent'[c][1]).hash = TransactionHash(Unwrap(sent'[c][1]).data)
                /\ pending_message_count' = pending_message_count - 1
                /\ \A d \in Calls \ {c} : sent'[d] = sent[d]
        /\ \A tx \in Transactions :
            (/\ ProcessNextTransaction(tx)
             /\ tx.valid /\ IsSome(tx.in_msg)
             /\ << BucketOfPhase(walker.pc), walker.held, Unwrap(tx.in_msg) >> \in Entries) =>
                \E c \in Calls :
                    /\ calls[c].pc \in {"tcp", "wait"}
                    /\ CallKey(c) = << BucketOfPhase(walker.pc), walker.held, Unwrap(tx.in_msg) >>
                    /\ sent'[c] = << Some([hash |-> TransactionHash(tx), data |-> tx]) >>
                    /\ CallKey(c) \notin Entries'
                    /\ pending_message_count' = pending_message_count - 1
        /\ \A c \in Calls :
            (calls[c].pc = "wait" /\ calls'[c].pc = "done") =>
                calls'[c].result = "ok" /\ calls'[c].value = sent[c][1]
      ]_vars

\* a call has returned the transaction the walker matched
MatchDeliversWitness ==
    \E c \in Calls :
        /\ calls[c].pc = "done" /\ calls[c].result = "ok"
        /\ IsSome(calls[c].value)
        /\ pending_message_count = 0
        /\ Entries = {}

(* ------------------------------------------------------------------ *)
(* C5                                                                   *)
(* ------------------------------------------------------------------ *)
\* C5: the retain of remove_expired_messages, at each account it visits,
\* removes exactly the entries with expire_at < utime, decrements the counter
\* by their number, removes the account when its inner map is left empty,
\* sends None to the call of each removed entry and touches nothing else.
ExpiryRemovesExactly ==
    [][ (walker.pc \in {"expire_mc", "expire_sc"} /\ walker'.cursor = walker.cursor + 1) =>
            LET b == BucketOfPhase(walker.pc)
                a == walker.cursor
                utime == GenUtime(walker.next_seq)
                expired == { k \in Entries :
                               k[1] = b /\ k[2] = a /\ EntryAt(k).expire_at < utime }
            IN  /\ Entries' = Entries \ expired
                /\ \A k \in Entries' : EntryAt(k)' = EntryAt(k)
                /\ pending_message_count' = pending_message_count - Cardinality(expired)
                /\ a \in DOMAIN pending_messages'[b] => DOMAIN pending_messages'[b][a] # {}
                /\ \A x \in Buckets :
                      DOMAIN pending_messages'[x] \ {a} = DOMAIN pending_messages[x] \ {a}
                /\ \A c \in Calls :
                      sent'[c] = IF \E k \in expired : EntryAt(k).tx = Some(c)
                                 THEN Append(sent[c], None) ELSE sent[c]
      ]_vars

\* a retain has just removed one entry of an account and kept another whose
\* expire_at equals utime
ExpiryRemovesExactlyWitness ==
    /\ walker.pc \in {"expire_mc", "expire_sc"}
    /\ walker.cursor > FirstAccount
    /\ \E k \in Entries :
          /\ k[1] = BucketOfPhase(walker.pc)
          /\ k[2] = walker.cursor - 1
          /\ EntryAt(k).expire_at = GenUtime(walker.next_seq)
    /\ \E c \in Calls :
          /\ calls[c].pc = "wait"
          /\ sent[c] = << None >>
          /\ CallBucket(c) = BucketOfPhase(walker.pc)
          /\ CallAccount(c) = walker.cursor - 1

(* ------------------------------------------------------------------ *)
(* C6                                                                   *)
(* ------------------------------------------------------------------ *)
\* C6: a call is answered "message already sent" exactly when it finds its
\* key in the registry, and then the registry, the counter, the notifier,
\* the channels and every other call are left as they were, and the call
\* returns without reaching the TCP submission.
DuplicateRejected ==
    [][ \A c \in Calls :
          /\ (Accepted(c) /\ calls'[c] # calls[c] /\ CallKey(c) \in Entries) =>
                /\ calls'[c].pc = "done"
                /\ calls'[c].result = "message already sent"
                /\ UNCHANGED << pending_messages, pending_message_count, signal, sent >>
                /\ \A d \in Calls \ {c} : calls'[d] = calls[d]
          /\ (calls'[c].result = "message already sent" /\ calls[c].pc # "done") =>
                Accepted(c) /\ CallKey(c) \in Entries
      ]_vars

\* a call was rejected as a duplicate while the call holding the key waits
DuplicateRejectedWitness ==
    \E c, d \in Calls :
        /\ calls[d].pc = "done" /\ calls[d].result = "message already sent"
        /\ calls[c].pc = "wait"
        /\ EntriesOf(c) # {}

(* ------------------------------------------------------------------ *)
(* C7                                                                   *)
(* ------------------------------------------------------------------ *)
\* C7: when the TCP submission fails the call returns the error, the counter
\* is back to what it was before the call's increment, no entry is left
\* under the call's key and the account's inner map is not left empty.
RollbackRestores ==
    [][ \A c \in Calls :
          (calls[c].pc = "tcp" /\ calls'[c].pc = "done") =>
              /\ calls'[c].result = "tcp error"
              /\ pending_message_count' = pending_message_count - 1
              /\ CallKey(c) \notin Entries'
              /\ CallAccount(c) \in DOMAIN pending_messages'[CallBucket(c)] =>
                    DOMAIN pending_messages'[CallBucket(c)][CallAccount(c)] # {}
      ]_vars

(* ------------------------------------------------------------------ *)
(* C8                                                                   *)
(* ------------------------------------------------------------------ *)
WorkchainOfBucket(bucket) == IF bucket = "mc" THEN MASTERCHAIN_ID ELSE BASE_WORKCHAIN_ID

\* C8: a message that is not external-in, or whose destination workchain is
\* neither the masterchain nor the base workchain, is rejected at once with
\* the registry, the counter, the notifier and the channels untouched and
\* without reaching the TCP submission; every entry of a bucket is an
\* external-in message to an account of that bucket's workchain.
InvalidRejected ==
    /\ [](\A k \in Entries : \E m \in Messages :
            /\ MessageHash(m) = k[3]
            /\ m.ext_in
            /\ m.account = k[2]
            /\ m.workchain = WorkchainOfBucket(k[1]))
    /\ [][ \A c \in Calls :
            (/\ calls[c].pc = "called"
             /\ calls'[c] # calls[c]
             /\ \/ ~Unwrap(calls[c].message).ext_in
                \/ Unwrap(calls[c].message).workchain
                      \notin {MASTERCHAIN_ID, BASE_WORKCHAIN_ID}) =>
                /\ calls'[c].pc = "done"
                /\ calls'[c].result =
                      (IF ~Unwrap(calls[c].message).ext_in
                       THEN "expected external message" ELSE "unsupported workchain")
                /\ UNCHANGED << pending_messages, pending_message_count, signal, sent >>
         ]_vars

\* one call was rejected for its workchain, another inserted its masterchain
\* message into the masterchain bucket
InvalidRejectedWitness ==
    \E c, d \in Calls :
        /\ calls[c].pc = "done" /\ calls[c].result = "unsupported workchain"
        /\ calls[d].pc = "wait"
        /\ EntriesOf(d) # {}
        /\ \A k \in EntriesOf(d) : k[1] = "mc"

(* ------------------------------------------------------------------ *)
(* C9                                                                   *)
(* ------------------------------------------------------------------ *)
\* the walker is inside make_blocks_step
InStep ==
    walker.pc \in {"step", "get_next", "proc_sc", "proc_mc", "expire_mc", "expire_sc"}

\* the walker is parked on a signal that has not completed
Parked == walker.pc = "await" /\ signal # "fired"

\* C9: no lost wakeup. The walker is parked with a positive counter only
\* while the call that incremented it has yet to notify, and every insertion
\* is followed by the walker being inside make_blocks_step, as long as the
\* subscription is alive.
NoLostWakeup ==
    /\ [](Parked /\ pending_message_count > 0 =>
            \E c \in Calls : calls[c].pc = "counted")
    /\ \A c \in Calls :
          (calls[c].pc = "inserted") ~> (InStep \/ ext_refs = 0)

\* the notification of an insertion has reached the walker parked after a
\* step that found the counter at zero
NoLostWakeupWitness ==
    /\ walker.pc = "await"
    /\ signal = "fired"
    /\ pending_message_count > 0
    /\ IsSome(last_mc_block)

(* ------------------------------------------------------------------ *)
(* C10                                                                  *)
(* ------------------------------------------------------------------ *)
\* C10: the walker exits only when no strong reference is held outside it,
\* and once the owners have released theirs a walker that is idle, waiting
\* for the notifier, eventually exits.
WalkerExitsWhenReleased ==
    /\ [](walker.pc = "exited" => ext_refs = 0)
    /\ (ext_refs = 0 /\ walker.pc = "await") ~> (walker.pc = "exited")

(* ------------------------------------------------------------------ *)
(* C11                                                                  *)
(* ------------------------------------------------------------------ *)
\* the walker has reached the last block the node produces in a run
ChainConsumed == IsSome(last_mc_block) /\ Unwrap(last_mc_block).seq_no = MaxMcSeq

\* C11: a call whose entry was inserted and whose TCP submission succeeded
\* never hangs: once its entry has left the registry a value has been sent to
\* it, and, with steps that eventually succeed, it eventually returns, unless
\* its entry is still registered when the run's masterchain blocks are used
\* up.
WaitersNeverHang ==
    /\ [](\A c \in Calls :
            (calls[c].pc = "wait" /\ EntriesOf(c) = {}) => Len(sent[c]) = 1)
    /\ \A c \in Calls :
          (calls[c].pc = "wait") ~>
              (calls[c].pc = "done" \/ (ChainConsumed /\ EntriesOf(c) # {}))

\* a call has returned None for an entry that expired
WaitersNeverHangWitness ==
    \E c \in Calls :
        /\ calls[c].pc = "done" /\ calls[c].result = "ok" /\ calls[c].value = None
        /\ \A d \in Calls : calls[d].result # "tcp error"
        /\ ChainConsumed
        /\ walker.pc = "await"

(* ------------------------------------------------------------------ *)
(* C12                                                                  *)
(* ------------------------------------------------------------------ *)
\* C12: a failing make_blocks_step never terminates the walker. The walker
\* exits only at an upgrade that finds no owner; inside its inner loop it
\* stays there until a step answers Ok(false), and after an error at any
\* point of a step it is at the start of make_blocks_step again with nothing
\* kept of the failed step.
WalkerSurvivesStepFailure ==
    [][ /\ (walker'.pc = "exited" /\ walker.pc # "exited") =>
                (walker.pc = "upgrade" /\ ext_refs = 0)
        /\ (InStep /\ walker' # walker) =>
                /\ walker'.pc \in {"step", "get_next", "proc_sc", "proc_mc",
                                   "expire_mc", "expire_sc", "await"}
                /\ walker'.pc = "await" =>
                      (walker.pc = "expire_sc" /\ pending_message_count = 0)
                /\ (walker'.pc = "step" /\ walker.pc # "expire_sc") =>
                      walker' = [IdleWalker EXCEPT !.pc = "step"]
      ]_vars

\* a step failed after a match in the masterchain block, leaving an empty
\* inner map in the masterchain bucket, and a later step is matching an
\* entry of the shard-chain bucket
WalkerSurvivesStepFailureWitness ==
    /\ walker.pc = "proc_sc"
    /\ \E a \in DOMAIN pending_messages["mc"] : DOMAIN pending_messages["mc"][a] = {}
    /\ \E d \in Calls :
          /\ calls[d].pc = "wait"
          /\ CallBucket(d) = "sc"
          /\ walker.held = CallAccount(d)
          /\ Len(sent[d]) = 1 /\ IsSome(sent[d][1])

(* ------------------------------------------------------------------ *)
(* C13                                                                  *)
(* ------------------------------------------------------------------ *)
\* C13: across the installs of the cached masterchain tip, by the refresh
\* of get_last_mc_block and by the end of a step, the stored gen_utime never
\* decreases, and the block a step installs is the successor of the tip the
\* step started from.
TipMonotonic ==
    [][ /\ IsSome(last_mc_block) =>
              /\ IsSome(last_mc_block')
              /\ Unwrap(last_mc_block').gen_utime >= Unwrap(last_mc_block).gen_utime
        /\ (walker.pc = "expire_sc" /\ walker'.pc \in {"step", "await"}) =>
              /\ IsSome(last_mc_block)
              /\ Unwrap(last_mc_block').seq_no = Unwrap(last_mc_block).seq_no + 1
              /\ Unwrap(last_mc_block').gen_utime > Unwrap(last_mc_block).gen_utime
      ]_vars

\* the last step of the walker's inner loop installed the last block of the
\* run
TipMonotonicWitness ==
    /\ walker.pc = "await"
    /\ IsSome(last_mc_block)
    /\ Unwrap(last_mc_block).seq_no = MaxMcSeq

(* ------------------------------------------------------------------ *)
(* C14                                                                  *)
(* ------------------------------------------------------------------ *)
RECURSIVE Pow(_, _)
Pow(b, n) == IF n = 0 THEN 1 ELSE b * Pow(b, n - 1)

\* min(max, floor(I * multiplier^n)) for the block policy; from n = 9 on
\* I * multiplier^n exceeds max
ClosedForm(n) ==
    IF n >= 9 THEN BLOCK_TIMEOUTS.max
    ELSE Min(BLOCK_TIMEOUTS.max,
             (BLOCK_TIMEOUTS.initial * Pow(BLOCK_TIMEOUTS.multiplier[1], n))
                 \div Pow(BLOCK_TIMEOUTS.multiplier[2], n))

\* the download is in a loop that counts its attempts: the number of
\* non-success attempts so far is fetch.attempt
CountingAttempts ==
    fetch.pc \in {"next_query", "next_sleep", "download_query", "download_sleep"}

\* C14, as stated: after n non-success attempts the current sleep value is
\* min(max, floor(I * multiplier^n)).
BackoffClosedForm ==
    CountingAttempts => fetch.timeouts.initial = ClosedForm(fetch.attempt)

\* the sleep values of the block policy, by number of non-success attempts
BlockBackoff == << 200, 240, 288, 345, 414, 496, 595, 714, 856, 1000 >>

\* C14, amended: after n non-success attempts the current sleep value is the
\* n-fold application of initial <- min(max, floor(initial * multiplier));
\* for the block policy these are 200, 240, 288, 345, 414, 496, 595, 714,
\* 856 and 1000 from then on; the value never exceeds
\* min(max, floor(I * multiplier^n)) and equals it for n <= 4 and n >= 9.
BackoffIterated ==
    CountingAttempts =>
        LET n == fetch.attempt
            current == fetch.timeouts.initial
        IN  /\ current = BlockBackoff[Min(n + 1, Len(BlockBackoff))]
            /\ current <= ClosedForm(n)
            /\ (n <= 4 \/ n >= 9) => current = ClosedForm(n)

\* the fifth retry, the first whose sleep value is below the closed form
BackoffIteratedWitness ==
    /\ fetch.pc = "next_sleep"
    /\ fetch.attempt = 5
    /\ fetch.timeouts.initial = 496
    /\ ClosedForm(5) = 497

(* ------------------------------------------------------------------ *)
(* C15                                                                  *)
(* ------------------------------------------------------------------ *)
\* the left fold ((..((o1 + o2)/2 + o3)/2 ..) + on)/2 of the observations,
\* the first one taken as it is, 0 when there is none
RECURSIVE Fold(_)
Fold(obs) ==
    IF obs = << >> THEN 0
    ELSE IF Len(obs) = 1 THEN obs[1]
    ELSE (Fold(SubSeq(obs, 1, Len(obs) - 1)) + obs[Len(obs)]) \div 2

\* C15: starting from 0, after any sequence of answered rldp_query calls the
\* estimate is the left fold of the observed roundtrips, also when
\* observations are 0 or drive the mean to 0.
EstimateIsFold == roundtrip = Fold(observed)

(* ------------------------------------------------------------------ *)
(* C16                                                                  *)
(* ------------------------------------------------------------------ *)
\* C16: is_before(id) is edge[id.shard] < id.seq_no whenever the edge has an
\* entry for the shard of id, whatever its intersecting entries say; without
\* such an entry it is the answer of an entry whose shard intersects that of
\* id, and false when there is none.
IsBeforeContract ==
    \A q \in dfs.asked :
        IF q.id.shard_id \in DOMAIN dfs.edge
        THEN q.answer = (dfs.edge[q.id.shard_id] < q.id.seq_no)
        ELSE IF \E shard \in DOMAIN dfs.edge : IntersectWith(q.id.shard_id, shard)
        THEN \E shard \in DOMAIN dfs.edge :
                /\ IntersectWith(q.id.shard_id, shard)
                /\ q.answer = (dfs.edge[shard] < q.id.seq_no)
        ELSE q.answer = FALSE

\* one block's two previous ids were asked: one with an entry of its own
\* and an intersecting entry that says otherwise, one answered by an
\* intersecting entry alone
IsBeforeContractWitness ==
    /\ \E q \in dfs.asked :
          /\ q.id.shard_id \in DOMAIN dfs.edge
          /\ \E shard \in DOMAIN dfs.edge :
                /\ shard # q.id.shard_id
                /\ IntersectWith(q.id.shard_id, shard)
                /\ q.answer # (dfs.edge[shard] < q.id.seq_no)
    /\ \E q \in dfs.asked :
          /\ q.id.shard_id \notin DOMAIN dfs.edge
          /\ q.answer

(* ------------------------------------------------------------------ *)
(* C17                                                                  *)
(* ------------------------------------------------------------------ *)
\* the shards of a masterchain block's edge have no accounts in common
DisjointShards(edge) ==
    \A a, b \in DOMAIN edge : a # b => ~IntersectWith(a, b)

\* C17: the traversal of a shard fetches only blocks strictly after the
\* previous tip's edge, also when the shard's top block is the one the
\* previous tip already included.
VisitsOnlyAfterEdge ==
    DisjointShards(dfs.edge) =>
        \A i \in 1..Len(dfs.blocks) :
            dfs.blocks[i].shard_id \in DOMAIN dfs.edge =>
                dfs.edge[dfs.blocks[i].shard_id] < dfs.blocks[i].seq_no

(* ------------------------------------------------------------------ *)
(* C18                                                                  *)
(* ------------------------------------------------------------------ *)
\* C18: get_next_block and get_block never surface a transport timeout: a
\* download returns a block, or the error of a parse or decode failure or of
\* a hard failure of the transport library.
TimeoutNeverSurfaced ==
    fetch.pc = "done" =>
        fetch.result \in {"block", "invalid block", "invalid response",
                          "rldp query failed", "adnl query failed"}

(* ------------------------------------------------------------------ *)
(* C19                                                                  *)
(* ------------------------------------------------------------------ *)
\* C19: resolve_ip calls find_address at most 11 times: the first success
\* is returned, each of the first 10 failures is followed by a retry, the
\* 11th consecutive failure is returned as the error, and the call always
\* terminates. resolve.attempt counts the calls of find_address.
ResolveAtMostEleven ==
    /\ [](resolve.attempt <= 11)
    /\ [](resolve.pc = "done" =>
            \/ resolve.result = "ok" /\ resolve.attempt \in 1..11
            \/ resolve.result = "error" /\ resolve.attempt = 11)
    /\ [][ /\ ResolveFind(TRUE) => (resolve'.pc = "done" /\ resolve'.result = "ok")
           /\ ResolveFind(FALSE) =>
                 /\ resolve'.attempt = resolve.attempt + 1
                 /\ resolve.attempt < 10 => resolve'.pc = "loop"
                 /\ resolve.attempt = 10 =>
                       (resolve'.pc = "done" /\ resolve'.result = "error")
         ]_vars
    /\ (resolve.pc = "loop") ~> (resolve.pc = "done")

\* the 11th consecutive failure has been returned
ResolveAtMostElevenWitness ==
    /\ resolve.pc = "done"
    /\ resolve.result = "error"
    /\ resolve.attempt = 11

(* ------------------------------------------------------------------ *)
(* C20                                                                  *)
(* ------------------------------------------------------------------ *)
\* C20: get_next_block issues its queries with attempt 0, 1, 2, ..., one
\* more per retry. On a payload that parses as DataFull::Found it returns at
\* once, the block when the block decodes; on a payload that does not parse
\* it returns an error at once; on DataFull::Empty or no answer it sleeps
\* for the policy's current value and queries again.
NextBlockLoop ==
    [][ /\ FetchCall("get_next_block") => (fetch'.pc = "next_query" /\ fetch'.attempt = 0)
        /\ \A outcome \in RldpOutcomes(NextBlockPayloads) :
              NextBlockQuery(outcome) =>
                  /\ fetch'.attempt = fetch.attempt
                  /\ fetch'.hint = (IF roundtrip > 0
                                    THEN Some(roundtrip + 50 * fetch.attempt) ELSE None)
                  /\ (outcome.kind = "some" /\ outcome.payload = "found") =>
                        (fetch'.pc = "done" /\ fetch'.result = "block")
                  /\ (outcome.kind = "some" /\ outcome.payload = "found_undecodable") =>
                        (fetch'.pc = "done" /\ fetch'.result = "invalid block")
                  /\ (outcome.kind = "some" /\ outcome.payload = "garbage") =>
                        (fetch'.pc = "done" /\ fetch'.result = "invalid response")
                  /\ (outcome.kind = "none"
                         \/ (outcome.kind = "some" /\ outcome.payload = "empty")) =>
                        (fetch'.pc = "next_sleep" /\ fetch'.result = "none")
        /\ fetch.pc = "next_sleep" =>
              \/ UNCHANGED fetch
              \/ /\ fetch'.pc = "next_query"
                 /\ fetch'.attempt = fetch.attempt + 1
                 /\ fetch'.slept = fetch.timeouts.initial
      ]_vars

\* after an empty response and a query without an answer the third query,
\* with attempt 2, was answered with the block
NextBlockLoopWitness ==
    /\ fetch.op = "get_next_block"
    /\ fetch.pc = "done"
    /\ fetch.result = "block"
    /\ fetch.attempt = 2
    /\ fetch.slept = 240
    /\ Len(observed) = 2

(* ------------------------------------------------------------------ *)
(* C21                                                                  *)
(* ------------------------------------------------------------------ *)
\* C21: in get_block the download of stage B starts only when a PrepareBlock
\* of the same call has answered Found, and it starts with attempt 0; each
\* NotFound leads to one sleep and then another PrepareBlock; in stage B
\* each query without an answer leads to one sleep and a query with the
\* attempt number one higher, and an answer ends the call.
GetBlockStages ==
    [][ /\ FetchCall("get_block") => fetch'.pc = "prepare_query"
        /\ (fetch'.pc = "download_query" /\ fetch.pc \notin {"download_query", "download_sleep"}) =>
              /\ fetch.op = "get_block"
              /\ PrepareQuery("found")
              /\ fetch'.attempt = 0
        /\ PrepareQuery("not_found") => fetch'.pc = "prepare_sleep"
        /\ fetch.pc = "prepare_sleep" =>
              \/ UNCHANGED fetch
              \/ fetch'.pc = "prepare_query" /\ fetch'.slept = fetch.timeouts.initial
        /\ \A outcome \in RldpOutcomes(BlockPayloads) :
              DownloadQuery(outcome) =>
                  /\ fetch'.attempt = fetch.attempt
                  /\ outcome.kind = "none" => fetch'.pc = "download_sleep"
                  /\ outcome.kind = "some" =>
                        (fetch'.pc = "done" /\ fetch'.result = BlockStuffNew(outcome.payload))
        /\ fetch.pc = "download_sleep" =>
              \/ UNCHANGED fetch
              \/ /\ fetch'.pc = "download_query"
                 /\ fetch'.attempt = fetch.attempt + 1
                 /\ fetch'.slept = fetch.timeouts.initial
      ]_vars

\* a get_block whose third download, with attempt 2, brought the block
GetBlockStagesWitness ==
    /\ fetch.op = "get_block"
    /\ fetch.pc = "done"
    /\ fetch.result = "block"
    /\ fetch.attempt = 2
    /\ fetch.slept = 240

(* ------------------------------------------------------------------ *)
(* C22                                                                  *)
(* ------------------------------------------------------------------ *)
\* C22: every counting loop starts from the constant policy, whatever
\* stage A of the same call or an earlier download has slept: before the
\* first failed attempt the policy is (200, 1000, 1.2), the k-th sleep of
\* the loop is the k-th of 200, 240, 288, 345, 414, ..., and no sleep is
\* above 1000.
FreshBackoff ==
    /\ fetch.pc \in {"next_query", "download_query"} =>
          /\ fetch.attempt = 0 => fetch.timeouts = BLOCK_TIMEOUTS
          /\ fetch.attempt > 0 =>
                fetch.slept = BlockBackoff[Min(fetch.attempt, Len(BlockBackoff))]
    /\ fetch.slept <= BLOCK_TIMEOUTS.max
    /\ \A i \in 1..(Len(BlockBackoff) - 1) : BlockBackoff[i] <= BlockBackoff[i + 1]

\* stage B has slept once, for 200 ms, after a stage A that had slept
\* twice, and an earlier download had answered
FreshBackoffWitness ==
    /\ fetch.op = "get_block"
    /\ fetch.pc = "download_query"
    /\ fetch.attempt = 1
    /\ fetch.slept = 200
    /\ fetch.timeouts.initial = 240
    /\ Len(observed) >= 1

(* ------------------------------------------------------------------ *)
(* C23                                                                  *)
(* ------------------------------------------------------------------ *)
\* C23: within a step the shard blocks are processed, then the masterchain
\* block, then the masterchain bucket is expired, then the shard-chain
\* bucket, then the next block is installed as the tip. A transaction
\* processed in the step delivers Some to the entry of its inbound message,
\* whatever the entry's expire_at; a step fails only before the expiry, and
\* a failing step does not install the next block.
StepOrder ==
    [][ /\ walker.pc = "get_next" => walker'.pc \in {"get_next", "proc_sc", "step"}
        /\ walker.pc = "proc_sc" => walker'.pc \in {"proc_sc", "proc_mc", "step"}
        /\ walker.pc = "proc_mc" => walker'.pc \in {"proc_mc", "expire_mc", "step"}
        /\ walker.pc = "expire_mc" => walker'.pc \in {"expire_mc", "expire_sc"}
        /\ walker.pc = "expire_sc" => walker'.pc \in {"expire_sc", "step", "await"}
        /\ (walker.pc = "expire_sc" /\ walker'.pc \in {"step", "await"}) =>
              last_mc_block' = Some(StoredMcBlock(walker.next_seq))
        /\ (walker.pc \in {"get_next", "proc_sc", "proc_mc"} /\ walker'.pc = "step") =>
              UNCHANGED last_mc_block
        /\ walker.pc \in {"proc_sc", "proc_mc"} =>
              pending_messages'[IF walker.pc = "proc_sc" THEN "mc" ELSE "sc"] =
                  pending_messages[IF walker.pc = "proc_sc" THEN "mc" ELSE "sc"]
              \/ \E c \in Calls : calls'[c] # calls[c]
        /\ \A tx \in Transactions :
              (ProcessNextTransaction(tx) /\ tx.valid /\ IsSome(tx.in_msg)) =>
                  \A c \in Calls :
                      << BucketOfPhase(walker.pc), walker.held, Unwrap(tx.in_msg) >>
                              \in EntriesOf(c) =>
                          /\ sent'[c] = Append(sent[c], Some(TransactionWithHash(tx)))
                          /\ EntriesOf(c)' = {}
      ]_vars

\* the step of the block generated at 15 has matched, in a shard block, an
\* entry that expires at 10 and is about to expire the buckets
StepOrderWitness ==
    \E c \in Calls :
        /\ calls[c].pc = "wait"
        /\ walker.pc = "proc_sc"
        /\ walker.held = CallAccount(c)
        /\ GenUtime(walker.next_seq) > calls[c].expire_at
        /\ Len(sent[c]) = 1 /\ IsSome(sent[c][1])

(* ------------------------------------------------------------------ *)
(* C24                                                                  *)
(* ------------------------------------------------------------------ *)
\* C24: the rollback of a call whose TCP submission failed removes no entry
\* of another call and sends nothing to another call.
RollbackOnlyOwn ==
    [][ \A c \in Calls :
          (calls[c].pc = "tcp" /\ calls'[c].pc = "done") =>
              \A d \in Calls \ {c} :
                  /\ EntriesOf(d)' = EntriesOf(d)
                  /\ sent'[d] = sent[d]
      ]_vars

(* ------------------------------------------------------------------ *)
(* C25                                                                  *)
(* ------------------------------------------------------------------ *)
\* C25: while an entry is pending the cached tip moves only by a step
\* installing the block it has processed, the successor of the tip; no
\* masterchain block after the walker's first tip is passed over.
NoSkippedMcBlock ==
    [][ (IsSome(last_mc_block) /\ Entries # {} /\ last_mc_block' # last_mc_block) =>
            /\ walker.pc = "expire_sc"
            /\ last_mc_block' =
                  Some(StoredMcBlock(Unwrap(last_mc_block).seq_no + 1))
      ]_vars

(* ------------------------------------------------------------------ *)
(* C26                                                                  *)
(* ------------------------------------------------------------------ *)
\* C26: the walker enters make_blocks_step from its check only with a
\* positive counter, and a step that ends with both buckets empty and no
\* send_message in progress is the last: the walker parks on the notifier.
WalkerParksWhenEmpty ==
    [][ /\ (walker.pc = "check" /\ walker'.pc = "step") => pending_message_count > 0
        /\ ( /\ walker.pc = "expire_sc"
             /\ walker'.pc \in {"step", "await"}
             /\ Entries = {}
             /\ \A c \in Calls : calls[c].pc \in {"idle", "done"} ) =>
              walker'.pc = "await"
      ]_vars

(* ------------------------------------------------------------------ *)
(* C27                                                                  *)
(* ------------------------------------------------------------------ *)
\* C27: the counter never wraps below zero: it is at most the number of
\* calls that have incremented it, and it goes down only by the number of
\* entries removed in the same step.
CounterNeverUnderflows ==
    /\ pending_message_count <=
          Cardinality({ c \in Calls : calls[c].pc \notin {"idle", "called", "inserted"} })
    /\ pending_message_count <= Cardinality(Calls)

\* two calls have incremented the counter and the walker has taken it back
\* to zero by a match and an expiry
CounterNeverUnderflowsWitness ==
    /\ pending_message_count = 0
    /\ \E c, d \in Calls :
          /\ c # d
          /\ calls[c].pc = "done" /\ calls[c].result = "ok" /\ IsSome(calls[c].value)
          /\ calls[d].pc = "done" /\ calls[d].result = "ok" /\ calls[d].value = None

====
